---- MODULE Spec2Model ----
(***************************************************************************)
(* Model of plot_order_flow                                                *)
(* (notebooks/Hasbrouck_Market_Microstructure/order_book_simulations/      *)
(* utilities.py).  One call of the function is one behaviour: the inputs   *)
(* are chosen in Init and never change, pc is the position in the body,    *)
(* and the calls made on the plotting library are recorded in fig, bars,   *)
(* hlines, fills, axes, line, scatters and shown.                          *)
(*                                                                         *)
(* Numbers: times, prices and volumes are integers.  Python's true         *)
(* division v / max_volume is kept as the exact fraction <<v, max_volume>> *)
(* and t - 1/2 as <<2*t - 1, 2>>; fractions are compared by cross          *)
(* multiplication.                                                         *)
(***************************************************************************)
EXTENDS Integers, Sequences, FiniteSets, TLC

\* ------------------------------------------------------------------ bounds
MaxLevels == 3      \* Levels in one book_state_sequence
MaxSnapshots == 2   \* sublists of a book_state_sequence
MaxTime == 2        \* times are 1..MaxTime
MaxVolume == 2      \* volumes are -1..MaxVolume (book), 0..MaxVolume (trades)
MaxTrade == 2       \* length of a trade sequence

Times == 1..MaxTime
Prices == {99, 101}
Volumes == (-1)..MaxVolume
Sides == {"ask", "bid"}
Flags == {0, 1}

\* ------------------------------------------------------- program constants
BarWidth == 1       \* width=1 of ax.bar
MarkerScale == 20   \* val * 20 of ax.scatter

VARIABLES
    book_state_sequence, price_sequence, volumes_sequence, buy_sequence,
    sell_sequence,
    pc,
    ask_data, bid_data,
    ask_times, ask_prices, ask_volumes,
    bid_times, bid_prices, bid_volumes,
    max_volume, norm_ask_volumes, norm_bid_volumes,
    fig, bars, hlines, fills, axes, line, scatters, shown,
    error, error_line

inputs == <<book_state_sequence, price_sequence, volumes_sequence,
            buy_sequence, sell_sequence>>
locals == <<ask_data, bid_data, ask_times, ask_prices, ask_volumes,
            bid_times, bid_prices, bid_volumes,
            max_volume, norm_ask_volumes, norm_bid_volumes>>
chart == <<fig, bars, hlines, fills, axes, line, scatters, shown>>
vars == <<inputs, pc, locals, chart, error, error_line>>

\* ----------------------------------------------------------------- helpers
Range(s) == {s[i] : i \in 1..Len(s)}

SeqsUpTo(S, n) == UNION {[1..k -> S] : k \in 0..n}

\* An optional argument: None (the default) or a list.
None == [given |-> FALSE, val |-> <<>>]
Some(s) == [given |-> TRUE, val |-> s]

\* Python truthiness of an optional list: None and [] are falsy.
Truthy(a) == a.given /\ a.val # <<>>

\* max(...) and min(...) of a non-empty tuple.
MaxOf(s) == CHOOSE m \in Range(s) : \A x \in Range(s) : x <= m
MinOf(s) == CHOOSE m \in Range(s) : \A x \in Range(s) : m <= x

\* sorted(set(...)) of a tuple of integers.
RECURSIVE SortedSet(_)
SortedSet(S) ==
    IF S = {} THEN <<>>
    ELSE LET m == CHOOSE x \in S : \A y \in S : x <= y
         IN <<m>> \o SortedSet(S \ {m})

\* Variant: the test on item[3] left out.
RECURSIVE SideItems_Unfiltered(_, _)
SideItems_Unfiltered(book, side) ==
    IF book = <<>> THEN <<>>
    ELSE Head(book) \o SideItems_Unfiltered(Tail(book), side)

\* [item for sublist in book for item in sublist if item[3] == side]
RECURSIVE SideItems(_, _)
SideItems(book, side) ==
    IF book = <<>> THEN <<>>
    ELSE LET sublist == Head(book)
             Keep(item) == item[4] = side
         IN SelectSeq(sublist, Keep) \o SideItems(Tail(book), side)

\* One component of zip(*[(d[0], d[1], d[2]) for d in data]).
Column(data, k) == [i \in 1..Len(data) |-> data[i][k]]

\* zip(*[...]) of an empty list yields nothing, and unpacking nothing into
\* three names raises "ValueError: not enough values to unpack".
UnpackFails(data) == data = <<>>

\* Variant: the maximum of the ask volumes only.
MaxVolumeOf_AsksOnly(av, bv) == MaxOf(av)

\* max(max(ask_volumes), max(bid_volumes))
MaxVolumeOf(av, bv) ==
    LET a == MaxOf(av)
        b == MaxOf(bv)
    IN IF a >= b THEN a ELSE b

\* Variant: a division that never raises (as that of an array library).
DivisionFails_Never(m) == FALSE

\* v / max_volume raises ZeroDivisionError when max_volume is 0.
DivisionFails(m) == m = 0

\* [v / max_volume for v in volumes]
Normalised(volumes, m) == [i \in 1..Len(volumes) |-> <<volumes[i], m>>]

\* Negation of a fraction (the -v of the bid bars).
Neg(f) == <<0 - f[1], f[2]>>

\* Variant: the ask bars drawn last Level first.
AskBars_Reversed(ts, ps, nvs) ==
    [i \in 1..Len(ts) |->
        [x |-> ts[Len(ts) + 1 - i], height |-> nvs[Len(ts) + 1 - i],
         width |-> BarWidth, bottom |-> ps[Len(ts) + 1 - i], color |-> "blue"]]

\* ax.bar(t, v, width=1, bottom=p, color=..., alpha=0.6) for the asks
AskBars(ts, ps, nvs) ==
    [i \in 1..Len(ts) |->
        [x |-> ts[i], height |-> nvs[i], width |-> BarWidth,
         bottom |-> ps[i], color |-> "blue"]]

\* ax.bar(t, -v, width=1, bottom=p, color=..., alpha=0.6) for the bids
BidBars(ts, ps, nvs) ==
    [i \in 1..Len(ts) |->
        [x |-> ts[i], height |-> Neg(nvs[i]), width |-> BarWidth,
         bottom |-> ps[i], color |-> "red"]]

\* Variant: prices = ask_prices + bid_prices, neither set nor sorted.
GridPrices_Duplicates(aps, bps) == aps \o bps

\* prices = sorted(set(ask_prices + bid_prices))
GridPrices(aps, bps) == SortedSet(Range(aps \o bps))

\* [p for time, p in zip(times, prices) if time == t]
PricesAt(ts, ps, t) ==
    LET idx == {i \in 1..Len(ts) : ts[i] = t}
        RECURSIVE Pick(_)
        Pick(i) == IF i > Len(ts) THEN <<>>
                   ELSE (IF i \in idx THEN <<ps[i]>> ELSE <<>>) \o Pick(i + 1)
    IN Pick(1)

\* Variant: the bounds of a crossed book put in order.
FillRegion_Ordered(t, max_bid_price, min_ask_price) ==
    [x1 |-> <<2 * t - 1, 2>>, x2 |-> <<2 * t + 1, 2>>,
     y1 |-> IF max_bid_price <= min_ask_price THEN max_bid_price
            ELSE min_ask_price,
     y2 |-> IF max_bid_price <= min_ask_price THEN min_ask_price
            ELSE max_bid_price]

\* ax.fill_between([t - 1/2, t + 1/2], max_bid_price, min_ask_price, ...)
FillRegion(t, max_bid_price, min_ask_price) ==
    [x1 |-> <<2 * t - 1, 2>>, x2 |-> <<2 * t + 1, 2>>,
     y1 |-> max_bid_price, y2 |-> min_ask_price]

\* The body of "for t in unique_times", from position i of unique_times on.
RECURSIVE SpreadFills(_, _, _, _, _, _)
SpreadFills(unique_times, i, ats, aps, bts, bps) ==
    IF i > Len(unique_times) THEN <<>>
    ELSE LET t == unique_times[i]
             ask_prices_at_t == PricesAt(ats, aps, t)
             bid_prices_at_t == PricesAt(bts, bps, t)
             rest == SpreadFills(unique_times, i + 1, ats, aps, bts, bps)
         IN IF ask_prices_at_t # <<>> /\ bid_prices_at_t # <<>>
            THEN <<FillRegion(t, MaxOf(bid_prices_at_t),
                              MinOf(ask_prices_at_t))>> \o rest
            ELSE rest

\* x, y = zip(*[[i + 1, v] for (i, v) in enumerate(price_sequence)])
PricePoints(ps) == [i \in 1..Len(ps) |-> <<i, ps[i]>>]

\* Variant: if volumes_sequence and (buy_sequence or sell_sequence):
MarkersGate_Either(v, b, s) == Truthy(v) /\ (Truthy(b) \/ Truthy(s))

\* if volumes_sequence and buy_sequence and sell_sequence:
MarkersGate(v, b, s) == Truthy(v) /\ Truthy(b) /\ Truthy(s)

\* Length of zip(a, b): the shorter of the two.
ZipLen(a, b) == IF Len(a) <= Len(b) THEN Len(a) ELSE Len(b)

\* Variant: the shorter list padded with 0 (zip_longest) instead of cut.
MarkerSizes_Padded(volumes, flags) ==
    LET n == IF Len(volumes) >= Len(flags) THEN Len(volumes) ELSE Len(flags)
    IN [i \in 1..n |->
          IF i <= ZipLen(volumes, flags)
          THEN (volumes[i] * flags[i]) * MarkerScale ELSE 0]

\* Variant: the sizes taken from the volumes alone.
MarkerSizes_Unflagged(volumes, flags) ==
    [i \in 1..ZipLen(volumes, flags) |-> volumes[i] * MarkerScale]

\* [val * 20 for val in [v * f for v, f in zip(volumes, flags)]]
MarkerSizes(volumes, flags) ==
    [i \in 1..ZipLen(volumes, flags) |-> (volumes[i] * flags[i]) * MarkerScale]

\* ax.scatter(x, y, s=..., color=...)
ScatterLayer(points, sizes, color) ==
    [points |-> points, s |-> sizes, color |-> color]

\* ------------------------------------------------------------------ inputs
Levels(T, P, V) == {<<t, p, v, sd>> : t \in T, p \in P, v \in V, sd \in Sides}

\* A list of levels cut into k + 1 consecutive sublists at the positions c.
Cuts(n, k) == {c \in [1..k -> 0..n] : \A i \in 1..(k - 1) : c[i] <= c[i + 1]}
Split(f, c) ==
    [j \in 1..(Len(c) + 1) |->
        SubSeq(f, (IF j = 1 THEN 0 ELSE c[j - 1]) + 1,
                  IF j = Len(c) + 1 THEN Len(f) ELSE c[j])]

\* Books whose sublists are cut in every possible way (sides only vary).
NestedBooks ==
    {<<>>} \cup
    UNION {UNION {{Split(f, c) : c \in Cuts(Len(f), k)} :
                    k \in 0..(MaxSnapshots - 1)} :
             f \in SeqsUpTo(Levels({1}, {99}, {1}), MaxLevels)}

\* Books of one sublist, every time, price and side, volume 1.
GeometryBooks == {<<f>> : f \in SeqsUpTo(Levels(Times, Prices, {1}), MaxLevels)}

\* Books of one sublist, every volume and side, one time and price.
VolumeBooks == {<<f>> : f \in SeqsUpTo(Levels({1}, {99}, Volumes), MaxLevels)}

\* The book of the docstring, first timestep, one level a side.
ExampleBook == << <<<<1, 101, 2, "ask">>>>, <<<<1, 99, 5, "bid">>>> >>

OptSeqs(S, n) == {None} \cup {Some(s) : s \in SeqsUpTo(S, n)}

\* Trade sequences of every length, fixed contents.
TradeLens == 0..(MaxTrade + 1)
FixedVolumes == [n \in TradeLens |-> [i \in 1..n |-> i]]
FixedBuys == [n \in TradeLens |-> [i \in 1..n |-> i % 2]]
FixedSells == [n \in TradeLens |-> [i \in 1..n |-> (i + 1) % 2]]
OptLens(F) == {None} \cup {Some(F[n]) : n \in DOMAIN F}

TypeOK == pc \in {"partition", "unzip_ask", "unzip_bid", "normalise",
                  "subplots", "asks", "bids", "grid", "fill", "axes",
                  "price", "green", "red", "show", "done", "error"}

InitLocals ==
    /\ pc = "partition"
    /\ ask_data = <<>> /\ bid_data = <<>>
    /\ ask_times = <<>> /\ ask_prices = <<>> /\ ask_volumes = <<>>
    /\ bid_times = <<>> /\ bid_prices = <<>> /\ bid_volumes = <<>>
    /\ max_volume = 0
    /\ norm_ask_volumes = <<>> /\ norm_bid_volumes = <<>>
    /\ fig = FALSE /\ bars = <<>> /\ hlines = <<>> /\ fills = <<>>
    /\ axes = <<>> /\ line = <<>> /\ scatters = <<>> /\ shown = FALSE
    /\ error = "none" /\ error_line = 0

NoTrades ==
    /\ price_sequence = None /\ volumes_sequence = None
    /\ buy_sequence = None /\ sell_sequence = None

\* Calls with a book only.
InitBook ==
    /\ book_state_sequence \in NestedBooks \cup GeometryBooks \cup VolumeBooks
    /\ NoTrades

\* Calls with trade sequences of every combination of lengths.
InitTradeLengths ==
    /\ book_state_sequence = ExampleBook
    /\ price_sequence \in OptSeqs(Prices, MaxTrade)
    /\ volumes_sequence \in OptLens(FixedVolumes)
    /\ buy_sequence \in OptLens(FixedBuys)
    /\ sell_sequence \in OptLens(FixedSells)

\* Calls with trade sequences of one length, every volume and flag.
InitTradeValues ==
    /\ book_state_sequence = ExampleBook
    /\ \E n \in 1..MaxTrade :
        /\ price_sequence = Some([i \in 1..n |-> IF i % 2 = 1 THEN 101 ELSE 99])
        /\ volumes_sequence \in {Some(s) : s \in [1..n -> 0..MaxVolume]}
        /\ buy_sequence \in {Some(s) : s \in [1..n -> Flags]}
        /\ sell_sequence \in {Some(s) : s \in [1..n -> Flags]}

Init ==
    /\ InitLocals
    /\ (InitBook \/ InitTradeLengths \/ InitTradeValues)

\* ----------------------------------------------------------------- actions
Raise(kind, at) ==
    /\ pc' = "error"
    /\ error' = kind
    /\ error_line' = at

\* lines 30-31
Partition ==
    /\ pc = "partition"
    /\ ask_data' = SideItems(book_state_sequence, "ask")
    /\ bid_data' = SideItems(book_state_sequence, "bid")
    /\ pc' = "unzip_ask"
    /\ UNCHANGED <<inputs, ask_times, ask_prices, ask_volumes, bid_times,
                   bid_prices, bid_volumes, max_volume, norm_ask_volumes,
                   norm_bid_volumes, chart, error, error_line>>

\* line 34
UnzipAsk ==
    /\ pc = "unzip_ask"
    /\ IF UnpackFails(ask_data)
       THEN /\ Raise("UnpackValueError", 34)
            /\ UNCHANGED <<ask_times, ask_prices, ask_volumes>>
       ELSE /\ ask_times' = Column(ask_data, 1)
            /\ ask_prices' = Column(ask_data, 2)
            /\ ask_volumes' = Column(ask_data, 3)
            /\ pc' = "unzip_bid"
            /\ UNCHANGED <<error, error_line>>
    /\ UNCHANGED <<inputs, ask_data, bid_data, bid_times, bid_prices,
                   bid_volumes, max_volume, norm_ask_volumes,
                   norm_bid_volumes, chart>>

\* line 35
UnzipBid ==
    /\ pc = "unzip_bid"
    /\ IF UnpackFails(bid_data)
       THEN /\ Raise("UnpackValueError", 35)
            /\ UNCHANGED <<bid_times, bid_prices, bid_volumes>>
       ELSE /\ bid_times' = Column(bid_data, 1)
            /\ bid_prices' = Column(bid_data, 2)
            /\ bid_volumes' = Column(bid_data, 3)
            /\ pc' = "normalise"
            /\ UNCHANGED <<error, error_line>>
    /\ UNCHANGED <<inputs, ask_data, bid_data, ask_times, ask_prices,
                   ask_volumes, max_volume, norm_ask_volumes,
                   norm_bid_volumes, chart>>

\* Variant: the figure created before the volumes are normalised.
Normalise_FigureFirst ==
    /\ pc = "normalise"
    /\ max_volume' = MaxVolumeOf(ask_volumes, bid_volumes)
    /\ fig' = TRUE
    /\ IF DivisionFails(max_volume')
       THEN /\ Raise("ZeroDivisionError", 39)
            /\ UNCHANGED <<norm_ask_volumes, norm_bid_volumes>>
       ELSE /\ norm_ask_volumes' = Normalised(ask_volumes, max_volume')
            /\ norm_bid_volumes' = Normalised(bid_volumes, max_volume')
            /\ pc' = "subplots"
            /\ UNCHANGED <<error, error_line>>
    /\ UNCHANGED <<inputs, ask_data, bid_data, ask_times, ask_prices,
                   ask_volumes, bid_times, bid_prices, bid_volumes,
                   bars, hlines, fills, axes, line, scatters, shown>>

\* lines 38-40
Normalise ==
    /\ pc = "normalise"
    /\ max_volume' = MaxVolumeOf(ask_volumes, bid_volumes)
    /\ IF DivisionFails(max_volume')
       THEN /\ Raise("ZeroDivisionError", 39)
            /\ UNCHANGED <<norm_ask_volumes, norm_bid_volumes>>
       ELSE /\ norm_ask_volumes' = Normalised(ask_volumes, max_volume')
            /\ norm_bid_volumes' = Normalised(bid_volumes, max_volume')
            /\ pc' = "subplots"
            /\ UNCHANGED <<error, error_line>>
    /\ UNCHANGED <<inputs, ask_data, bid_data, ask_times, ask_prices,
                   ask_volumes, bid_times, bid_prices, bid_volumes, chart>>

\* line 42
Subplots ==
    /\ pc = "subplots"
    /\ fig' = TRUE
    /\ pc' = "asks"
    /\ UNCHANGED <<inputs, locals, bars, hlines, fills, axes, line, scatters,
                   shown, error, error_line>>

\* lines 45-46
PlotAsks ==
    /\ pc = "asks"
    /\ bars' = bars \o AskBars(ask_times, ask_prices, norm_ask_volumes)
    /\ pc' = "bids"
    /\ UNCHANGED <<inputs, locals, fig, hlines, fills, axes, line, scatters,
                   shown, error, error_line>>

\* lines 49-50
PlotBids ==
    /\ pc = "bids"
    /\ bars' = bars \o BidBars(bid_times, bid_prices, norm_bid_volumes)
    /\ pc' = "grid"
    /\ UNCHANGED <<inputs, locals, fig, hlines, fills, axes, line, scatters,
                   shown, error, error_line>>

\* lines 53-55
Gridlines ==
    /\ pc = "grid"
    /\ hlines' = hlines \o GridPrices(ask_prices, bid_prices)
    /\ pc' = "fill"
    /\ UNCHANGED <<inputs, locals, fig, bars, fills, axes, line, scatters,
                   shown, error, error_line>>

\* lines 59-67
SpreadFill ==
    /\ pc = "fill"
    /\ LET unique_times == SortedSet(Range(ask_times \o bid_times))
       IN fills' = fills \o SpreadFills(unique_times, 1, ask_times, ask_prices,
                                        bid_times, bid_prices)
    /\ pc' = "axes"
    /\ UNCHANGED <<inputs, locals, fig, bars, hlines, axes, line, scatters,
                   shown, error, error_line>>

\* lines 71-76
AxisSetup ==
    /\ pc = "axes"
    /\ axes' = <<"Time", "Price", "Order Flow",
                 MinOf(ask_times \o bid_times), MaxOf(ask_times \o bid_times)>>
    /\ pc' = "price"
    /\ UNCHANGED <<inputs, locals, fig, bars, hlines, fills, line, scatters,
                   shown, error, error_line>>

\* lines 80-82 and the test of line 85
PriceLine ==
    /\ pc = "price"
    /\ IF Truthy(price_sequence)
       THEN /\ line' = line \o <<PricePoints(price_sequence.val)>>
            /\ pc' = IF MarkersGate(volumes_sequence, buy_sequence, sell_sequence)
                     THEN "green" ELSE "show"
       ELSE /\ pc' = "show"
            /\ UNCHANGED line
    /\ UNCHANGED <<inputs, locals, fig, bars, hlines, fills, axes, scatters,
                   shown, error, error_line>>

\* The sizes handed to ax.scatter have the length of x and y.
SizesFit(sizes) == Len(sizes) = Len(price_sequence.val)

\* line 86
ScatterGreen ==
    /\ pc = "green"
    /\ scatters' = scatters \o
          <<ScatterLayer(PricePoints(price_sequence.val),
                         MarkerSizes(volumes_sequence.val, buy_sequence.val),
                         "green")>>
    /\ pc' = "red"
    /\ UNCHANGED <<inputs, locals, fig, bars, hlines, fills, axes, line,
                   shown, error, error_line>>

\* line 86: the library may refuse sizes that do not fit x and y
ScatterGreenRefused ==
    /\ pc = "green"
    /\ ~SizesFit(MarkerSizes(volumes_sequence.val, buy_sequence.val))
    /\ Raise("ScatterSizeValueError", 86)
    /\ UNCHANGED <<inputs, locals, chart>>

\* line 87
ScatterRed ==
    /\ pc = "red"
    /\ scatters' = scatters \o
          <<ScatterLayer(PricePoints(price_sequence.val),
                         MarkerSizes(volumes_sequence.val, sell_sequence.val),
                         "red")>>
    /\ pc' = "show"
    /\ UNCHANGED <<inputs, locals, fig, bars, hlines, fills, axes, line,
                   shown, error, error_line>>

\* line 87: the library may refuse sizes that do not fit x and y
ScatterRedRefused ==
    /\ pc = "red"
    /\ ~SizesFit(MarkerSizes(volumes_sequence.val, sell_sequence.val))
    /\ Raise("ScatterSizeValueError", 87)
    /\ UNCHANGED <<inputs, locals, chart>>

\* line 91
Show ==
    /\ pc = "show"
    /\ shown' = TRUE
    /\ pc' = "done"
    /\ UNCHANGED <<inputs, locals, fig, bars, hlines, fills, axes, line,
                   scatters, error, error_line>>

Next ==
    \/ Partition
    \/ UnzipAsk
    \/ UnzipBid
    \/ Normalise
    \/ Subplots
    \/ PlotAsks
    \/ PlotBids
    \/ Gridlines
    \/ SpreadFill
    \/ AxisSetup
    \/ PriceLine
    \/ ScatterGreen
    \/ ScatterGreenRefused
    \/ ScatterRed
    \/ ScatterRedRefused
    \/ Show

Spec == Init /\ [][Next]_vars

\* ------------------------------------------------------------- the inputs,
\* read directly (not through the locals the function computes)
Pos == {q \in (1..Len(book_state_sequence)) \X (1..MaxLevels) :
            q[2] <= Len(book_state_sequence[q[1]])}
Lv(q) == book_state_sequence[q[1]][q[2]]
SidePos(sd) == {q \in Pos : Lv(q)[4] = sd}
HasAsk == SidePos("ask") # {}
HasBid == SidePos("bid") # {}
AllVolumes == {Lv(q)[3] : q \in Pos}
TrueMax == CHOOSE m \in AllVolumes : \A v \in AllVolumes : v <= m
ValidBook == HasAsk /\ HasBid /\ TrueMax # 0
Before(q, r) == q[1] < r[1] \/ (q[1] = r[1] /\ q[2] <= r[2])

Terminated == pc \in {"done", "error"}
GenericFaults == {"UnpackValueError", "ZeroDivisionError"}
Refused == error = "ScatterSizeValueError"
NoDrawing ==
    /\ fig = FALSE /\ bars = <<>> /\ hlines = <<>> /\ fills = <<>>
    /\ axes = <<>> /\ line = <<>> /\ scatters = <<>> /\ shown = FALSE
Drawn(after) == pc \in after \/ Refused

\* A supplied volumes, buy or sell sequence differs in length from a
\* non-empty price_sequence.
Mismatch ==
    /\ Truthy(price_sequence)
    /\ \E a \in {volumes_sequence, buy_sequence, sell_sequence} :
          a.given /\ Len(a.val) # Len(price_sequence.val)
\* The same, an empty list counted as not supplied.
MismatchNonEmpty ==
    /\ Truthy(price_sequence)
    /\ \E a \in {volumes_sequence, buy_sequence, sell_sequence} :
          Truthy(a) /\ Len(a.val) # Len(price_sequence.val)
Shorter(a, b) == IF Len(a.val) <= Len(b.val) THEN Len(a.val) ELSE Len(b.val)

\* ---------------------------------------------------------------------- C1
\* C1 (as claimed): a call with an empty book, no ask Level or no bid Level
\* fails with an input-validation error, not with a generic unpacking or
\* arithmetic fault.
C1_Original ==
    (Terminated /\ ~(HasAsk /\ HasBid)) =>
        (pc = "error" /\ error \notin GenericFaults)

\* C1 (amended): a call with an empty book, no ask Level or no bid Level
\* fails with the ValueError of the tuple unpacking "not enough values to
\* unpack": at line 34 when there is no ask Level (the empty book included),
\* at line 35 when there are asks but no bid Level.
C1_UnpackFault ==
    (Terminated /\ ~(HasAsk /\ HasBid)) =>
        /\ pc = "error"
        /\ error = "UnpackValueError"
        /\ error_line = (IF HasAsk THEN 35 ELSE 34)

C1_Witness ==
    /\ pc = "error" /\ error = "UnpackValueError" /\ error_line = 35
    /\ HasAsk /\ ~HasBid

\* ---------------------------------------------------------------------- C2
\* C2 (as claimed): a book with an ask and a bid Level whose volumes are all
\* 0 fails with something other than the low-level division-by-zero fault.
C2_Original ==
    (Terminated /\ HasAsk /\ HasBid /\ AllVolumes = {0}) =>
        (pc = "error" /\ error # "ZeroDivisionError")

\* C2 (amended): such a book fails with the ZeroDivisionError of the first
\* v / max_volume (line 39), max_volume being 0.
C2_ZeroDivision ==
    (Terminated /\ HasAsk /\ HasBid /\ AllVolumes = {0}) =>
        /\ pc = "error"
        /\ error = "ZeroDivisionError"
        /\ error_line = 39
        /\ max_volume = 0

C2_Witness ==
    /\ pc = "error" /\ error = "ZeroDivisionError"
    /\ HasAsk /\ HasBid /\ AllVolumes = {0}
    /\ Cardinality(Pos) >= 2

\* ---------------------------------------------------------------------- C3
\* C3 (as claimed): with a valid book and a non-empty price_sequence, a
\* supplied (non-empty) volumes, buy or sell sequence of another length makes
\* the call fail, and no marker layer is drawn from the mismatched sequences.
C3_Original ==
    (Terminated /\ ValidBook /\ MismatchNonEmpty) =>
        (pc = "error" /\ scatters = <<>>)

\* C3 (amended): the function does not compare the lengths.  The price line
\* is drawn in full; the sizes of a marker layer are cut by zip to the
\* shorter of volumes_sequence and the flag sequence; when the three are
\* non-empty and both cut lists are as long as price_sequence both layers
\* are drawn and the chart is displayed without error; the only error there
\* can be is the library refusing, at a scatter call, sizes of another
\* length than price_sequence.
C3_NoLengthCheck ==
    (Terminated /\ ValidBook /\ Mismatch) =>
        LET n == Len(price_sequence.val)
            all == /\ Truthy(volumes_sequence) /\ Truthy(buy_sequence)
                   /\ Truthy(sell_sequence)
            g == Shorter(volumes_sequence, buy_sequence)
            r == Shorter(volumes_sequence, sell_sequence)
        IN /\ Len(line) = 1 /\ Len(line[1]) = n
           /\ error \in {"none", "ScatterSizeValueError"}
           /\ pc = "error" => (all /\ (g # n \/ r # n))
           /\ (all /\ g = n /\ r = n) =>
                 /\ pc = "done" /\ shown
                 /\ Len(scatters) = 2
                 /\ Len(scatters[1].s) = n /\ Len(scatters[2].s) = n

C3_Witness ==
    /\ pc = "done" /\ ValidBook /\ Mismatch
    /\ Len(scatters) = 2
    /\ Len(volumes_sequence.val) > Len(price_sequence.val)
    /\ Len(scatters[1].s) = Len(price_sequence.val)

\* ---------------------------------------------------------------------- C4
\* C4 (as claimed): a call with an empty book, a missing side, max_volume = 0
\* or (non-empty) overlay sequences of mismatched lengths ends without any
\* drawing operation having occurred and without the chart being displayed.
C4_Original ==
    (Terminated /\ (~HasAsk \/ ~HasBid \/ TrueMax = 0 \/ MismatchNonEmpty)) =>
        NoDrawing

\* C4 (amended): a call with an empty book, a missing side or max_volume = 0
\* raises its error before any drawing operation and never displays; the two
\* faults of lines 34-39 are never raised after a drawing operation.  A call
\* with a valid book and mismatched overlay lengths has drawn the bars, the
\* gridlines, the axes and the price line before it ends.
C4_FailBeforeDrawing ==
    /\ (Terminated /\ (~HasAsk \/ ~HasBid \/ TrueMax = 0)) =>
          (pc = "error" /\ error \in GenericFaults /\ NoDrawing)
    /\ error \in GenericFaults => NoDrawing
    /\ (Terminated /\ ValidBook /\ Mismatch) =>
          (fig /\ bars # <<>> /\ hlines # <<>> /\ axes # <<>> /\ line # <<>>)

C4_Witness ==
    /\ pc = "error" /\ error_line = 34 /\ NoDrawing
    /\ ~HasAsk /\ HasBid

\* ---------------------------------------------------------------------- C5
InUnit(f) == f[2] > 0 /\ 0 <= f[1] /\ f[1] <= f[2]
ValidVolumes ==
    /\ HasAsk /\ HasBid
    /\ \A v \in AllVolumes : v >= 0
    /\ TrueMax > 0

\* C5: with an ask and a bid Level, no negative volume and a positive
\* maximum, the call gets past the normalisation, max_volume is the maximum
\* of all volumes, and every v / max_volume of either side lies in [0, 1].
C5_NormalisedInUnit ==
    ValidVolumes =>
        /\ error \notin GenericFaults
        /\ Drawn({"subplots", "asks", "bids", "grid", "fill", "axes", "price",
                  "green", "red", "show", "done"}) =>
              /\ max_volume = TrueMax
              /\ Len(norm_ask_volumes) = Cardinality(SidePos("ask"))
              /\ Len(norm_bid_volumes) = Cardinality(SidePos("bid"))
              /\ \A i \in 1..Len(norm_ask_volumes) :
                    /\ norm_ask_volumes[i][1] = ask_data[i][3]
                    /\ InUnit(norm_ask_volumes[i])
              /\ \A i \in 1..Len(norm_bid_volumes) :
                    /\ norm_bid_volumes[i][1] = bid_data[i][3]
                    /\ InUnit(norm_bid_volumes[i])

C5_Witness ==
    /\ pc = "done" /\ ValidVolumes
    /\ \E i \in 1..Len(norm_ask_volumes) :
          /\ 0 < norm_ask_volumes[i][1]
          /\ norm_ask_volumes[i][1] < norm_ask_volumes[i][2]
    /\ \E i \in 1..Len(norm_bid_volumes) :
          norm_bid_volumes[i][1] = norm_bid_volumes[i][2]

\* ---------------------------------------------------------------------- C6
TimesOf == {Lv(q)[1] : q \in Pos}
PricesOfAt(sd, t) == {Lv(q)[2] : q \in {r \in SidePos(sd) : Lv(r)[1] = t}}
Highest(S) == CHOOSE m \in S : \A x \in S : x <= m
Lowest(S) == CHOOSE m \in S : \A x \in S : m <= x
RegionsOf(t) ==
    {i \in 1..Len(fills) :
        fills[i].x1 = <<2 * t - 1, 2>> /\ fills[i].x2 = <<2 * t + 1, 2>>}

\* C6: once the spread is filled, a time t of the book has a region iff it
\* has an ask and a bid Level; then it has one region, from t - 1/2 to
\* t + 1/2, with lower bound the highest bid and upper bound the lowest ask
\* at t, crossed or not; and there is no other region.
C6_SpreadFill ==
    Drawn({"axes", "price", "green", "red", "show", "done"}) =>
        /\ \A t \in TimesOf :
              LET both == PricesOfAt("ask", t) # {} /\ PricesOfAt("bid", t) # {}
              IN /\ (RegionsOf(t) # {}) <=> both
                 /\ Cardinality(RegionsOf(t)) <= 1
                 /\ \A i \in RegionsOf(t) :
                       /\ fills[i].y1 = Highest(PricesOfAt("bid", t))
                       /\ fills[i].y2 = Lowest(PricesOfAt("ask", t))
        /\ \A i \in 1..Len(fills) : \E t \in TimesOf : i \in RegionsOf(t)

C6_Witness ==
    /\ pc = "done"
    /\ \E i \in 1..Len(fills) : fills[i].y1 > fills[i].y2
    /\ \E t \in TimesOf : RegionsOf(t) = {}

\* ---------------------------------------------------------------------- C7
AllPrices == {Lv(q)[2] : q \in Pos}

\* C7: once the gridlines are drawn there is one gridline for each distinct
\* price of the book and none else.
C7_Gridlines ==
    Drawn({"fill", "axes", "price", "green", "red", "show", "done"}) =>
        /\ Range(hlines) = AllPrices
        /\ Len(hlines) = Cardinality(AllPrices)

C7_Witness ==
    /\ pc = "done"
    /\ Len(hlines) = 2
    /\ Cardinality(Pos) = 3

\* ---------------------------------------------------------------------- C8
EqualTrades ==
    /\ Truthy(price_sequence) /\ Truthy(volumes_sequence)
    /\ Truthy(buy_sequence) /\ Truthy(sell_sequence)
    /\ Len(volumes_sequence.val) = Len(price_sequence.val)
    /\ Len(buy_sequence.val) = Len(price_sequence.val)
    /\ Len(sell_sequence.val) = Len(price_sequence.val)

\* C8: with the four trade sequences given at one length n the call is not
\* refused, and at every step i the green marker at (i, price i) has size
\* k * volume i * buy i and the red one k * volume i * sell i, k = 20 > 0;
\* both are 0 where buy and sell are 0.
C8_MarkerSizes ==
    (Terminated /\ ValidBook /\ EqualTrades) =>
        LET n == Len(price_sequence.val)
            k == MarkerScale
            P == price_sequence.val
            V == volumes_sequence.val
            B == buy_sequence.val
            S == sell_sequence.val
        IN /\ pc = "done" /\ k > 0
           /\ Len(scatters) = 2
           /\ scatters[1].color = "green" /\ scatters[2].color = "red"
           /\ \A c \in 1..2 :
                 /\ Len(scatters[c].points) = n /\ Len(scatters[c].s) = n
                 /\ \A i \in 1..n : scatters[c].points[i] = <<i, P[i]>>
           /\ \A i \in 1..n :
                 /\ scatters[1].s[i] = k * V[i] * B[i]
                 /\ scatters[2].s[i] = k * V[i] * S[i]
                 /\ (B[i] = 0 /\ S[i] = 0) =>
                       (scatters[1].s[i] = 0 /\ scatters[2].s[i] = 0)

C8_Witness ==
    /\ pc = "done" /\ EqualTrades
    /\ Len(price_sequence.val) = 2
    /\ \E i \in 1..2 : /\ buy_sequence.val[i] = 0 /\ sell_sequence.val[i] = 0
                       /\ volumes_sequence.val[i] > 0
    /\ \E i \in 1..2 : scatters[1].s[i] > 0 /\ scatters[2].s[i] > 0

\* ---------------------------------------------------------------------- C9
\* C9: "provided" is what the code tests, a list that is neither None nor
\* empty.  Without price_sequence no line and no marker layer is ever drawn;
\* with it, a call that ends has drawn the line through (i, price i),
\* i = 1.., and a call that completes has drawn the green and the red layer
\* iff volumes, buy and sell sequence are all provided.
C9_OverlayGate ==
    LET all == /\ Truthy(volumes_sequence) /\ Truthy(buy_sequence)
               /\ Truthy(sell_sequence)
    IN /\ ~Truthy(price_sequence) => (line = <<>> /\ scatters = <<>>)
       /\ (Terminated /\ ValidBook /\ Truthy(price_sequence)) =>
             /\ Len(line) = 1
             /\ Len(line[1]) = Len(price_sequence.val)
             /\ \A i \in 1..Len(line[1]) :
                   line[1][i] = <<i, price_sequence.val[i]>>
       /\ (pc = "done" /\ Truthy(price_sequence)) =>
             /\ (scatters # <<>>) <=> all
             /\ all => /\ Len(scatters) = 2
                       /\ scatters[1].color = "green"
                       /\ scatters[2].color = "red"
       /\ Refused => (Truthy(price_sequence) /\ all)

C9_Witness ==
    /\ pc = "done"
    /\ ~Truthy(price_sequence)
    /\ Truthy(volumes_sequence) /\ Truthy(buy_sequence) /\ Truthy(sell_sequence)
    /\ line = <<>> /\ scatters = <<>>

\* --------------------------------------------------------------------- C10
\* Position in bars of the Level at q: asks first, each side in input order.
BarIndex(q) ==
    LET sd == Lv(q)[4]
        earlier == Cardinality({r \in SidePos(sd) : Before(r, q)})
    IN IF sd = "ask" THEN earlier
       ELSE Cardinality(SidePos("ask")) + earlier

\* C10: once the bars are drawn there is one bar for each Level, the asks
\* first and each side in input order; the bar of Level (t, p, v) is at
\* x = t, width 1, base p, with extent v / max_volume for an ask and
\* -v / max_volume for a bid.
C10_Bars ==
    Drawn({"grid", "fill", "axes", "price", "green", "red", "show", "done"}) =>
        /\ Len(bars) = Cardinality(Pos)
        /\ \A q \in Pos :
              LET b == bars[BarIndex(q)]
                  l == Lv(q)
              IN /\ b.x = l[1] /\ b.width = 1 /\ b.bottom = l[2]
                 /\ b.height = (IF l[4] = "ask" THEN <<l[3], TrueMax>>
                                ELSE <<0 - l[3], TrueMax>>)
                 /\ b.color = (IF l[4] = "ask" THEN "blue" ELSE "red")

C10_Witness ==
    /\ pc = "done"
    /\ Len(ask_data) = 2 /\ ask_data[1] # ask_data[2]
    /\ Len(bid_data) = 1
    /\ Len(bars) = 3
    /\ bars[3].height[1] < 0

====
